---- MODULE Spec2Model ----
(***************************************************************************)
(* Resilience layer of docugardener-agent: utils/retry.py.                 *)
(*                                                                         *)
(*   Spec       CircuitBreaker used by one thread: call, is_available and  *)
(*              the passing of time.                                       *)
(*   RetrySpec  retry_with_backoff: one wrapper call, attempt by attempt.  *)
(*                                                                         *)
(* Time and delays are integers (one unit is one tick of time.time()).     *)
(* An exception is a record [kind, msg]; kinds are Python class names and  *)
(* `except` matches by class, so by the class hierarchy below.             *)
(***************************************************************************)
EXTENDS Integers, Sequences, FiniteSets, TLC

\* ---------------------------------------------------------------- bounds
MaxThreshold == 3
MaxTimeout == 2
MaxTime == 4
MaxDuration == 1
MaxFailures == 5

\* ------------------------------------------------------------ exceptions
\* The classes that occur, each with its base class (Python's built-in
\* hierarchy; CircuitBreakerOpenError derives from Exception).
Parent(kind) ==
    CASE kind = "ConnectionError" -> "OSError"
      [] kind = "ConnectionResetError" -> "ConnectionError"
      [] kind = "TimeoutError" -> "OSError"
      [] kind = "OSError" -> "Exception"
      [] kind = "ValueError" -> "Exception"
      [] kind = "RuntimeError" -> "Exception"
      [] kind = "TypeError" -> "Exception"
      [] kind = "OverflowError" -> "Exception"
      [] kind = "CircuitBreakerOpenError" -> "Exception"
      [] kind = "Exception" -> "BaseException"
      [] kind = "KeyboardInterrupt" -> "BaseException"
      [] OTHER -> "object"

RECURSIVE IsSubclass(_, _)
IsSubclass(kind, base) ==
    IF kind = base THEN TRUE
    ELSE IF kind = "BaseException" \/ kind = "object" THEN FALSE
    ELSE IsSubclass(Parent(kind), base)

\* `except classes as e`: e is caught when its class derives from one of them.
Catches(classes, e) == \E c \in classes : IsSubclass(e.kind, c)

Msgs == {"m1", "m2"}

Exc(kind, msg) == [kind |-> kind, msg |-> msg]

\* What one invocation of the wrapped operation does: return a value or raise.
NoExc == Exc("none", "none")
Returned(v) == [t |-> "return", v |-> v, e |-> NoExc]
Raised(e) == [t |-> "raise", v |-> "none", e |-> e]
NotInvoked == [t |-> "none", v |-> "none", e |-> NoExc]

Results == {"ok", "recovered"}

\* ------------------------------------------------------- circuit breaker
VARIABLES
    breaker,    \* the CircuitBreaker object: its five attributes
    now,        \* time.time()
    called,     \* the last operation on the breaker and what came of it
    streak      \* consecutive calls whose operation raised

bvars == <<breaker, now, called, streak>>

BreakerOpKinds == {"ValueError", "ConnectionError", "KeyboardInterrupt"}
BreakerOpOutcomes ==
    {Returned(v) : v \in Results}
        \cup {Raised(Exc(k, m)) : k \in BreakerOpKinds, m \in Msgs}

CircuitBreaker(F, T) ==
    [failure_threshold |-> F, recovery_timeout |-> T,
     failures |-> 0, state |-> "closed", last_failure_time |-> 0]

CircuitBreakerOpenError == Exc("CircuitBreakerOpenError", "Circuit breaker is OPEN")

timeout_elapsed_strict(self, t) ==
    t - self.last_failure_time > self.recovery_timeout

\* The test of lines 133 and 174: has the cooldown passed at time t?
timeout_elapsed(self, t) == t - self.last_failure_time >= self.recovery_timeout

on_success_probe_only(self) ==
    IF self.state = "half_open"
    THEN [self EXCEPT !.failures = 0, !.state = "closed"]
    ELSE self

on_success_keeping_count(self) == [self EXCEPT !.state = "closed"]

on_success(self) == [self EXCEPT !.failures = 0, !.state = "closed"]

on_failure_late(self, t) ==
    LET n == self.failures + 1
    IN  [self EXCEPT !.failures = n,
                     !.last_failure_time = t,
                     !.state = IF n > self.failure_threshold THEN "open" ELSE @]

on_failure_untimed(self, t) ==
    LET n == self.failures + 1
    IN  [self EXCEPT !.failures = n,
                     !.state = IF n >= self.failure_threshold THEN "open" ELSE @]

on_failure(self, t) ==
    LET n == self.failures + 1
    IN  [self EXCEPT !.failures = n,
                     !.last_failure_time = t,
                     !.state = IF n >= self.failure_threshold THEN "open" ELSE @]

\* Lines 132-141: does the call raise CircuitBreakerOpenError at time t?
rejects(self, t) == self.state = "open" /\ ~timeout_elapsed(self, t)

\* Lines 132-135: the breaker as the operation is about to be invoked.
admit(self, t) ==
    IF self.state = "open" /\ timeout_elapsed(self, t)
    THEN [self EXCEPT !.state = "half_open"]
    ELSE self

\* Lines 143-149: the breaker after the operation did `out`, finishing at t.
settle(self, out, t) ==
    IF out.t = "return" THEN on_success(self)
    ELSE IF Catches({"Exception"}, out.e) THEN on_failure(self, t)
    ELSE self

propagate_wrapped(self, out) ==
    IF out.t = "raise" /\ self.state = "open"
    THEN Raised(Exc("CircuitBreakerOpenError", out.e.msg))
    ELSE out

\* Lines 146 and 149: what the caller gets when the operation did `out` and
\* the breaker has become `self`: `return result`, or a bare `raise`.
propagate(self, out) == out

Streak(out) ==
    [any |-> IF out.t = "raise" THEN streak.any + 1 ELSE 0,
     exc |-> IF out.t = "raise" /\ Catches({"Exception"}, out.e)
             THEN streak.exc + 1 ELSE 0]

Cap(s) ==
    [any |-> IF s.any > MaxThreshold THEN MaxThreshold ELSE s.any,
     exc |-> IF s.exc > MaxThreshold THEN MaxThreshold ELSE s.exc]

call_counting_rejections(out, dur) ==
    LET adm == admit(breaker, now)
    IN  IF rejects(breaker, now)
        THEN /\ called' = [op |-> "call", pre |-> breaker, at |-> now,
                           invoked |-> 0, seen |-> "none", did |-> NotInvoked,
                           result |-> Raised(CircuitBreakerOpenError)]
             /\ streak' = Cap(Streak(NotInvoked))
             /\ breaker' = [breaker EXCEPT !.last_failure_time = now]
             /\ UNCHANGED now
        ELSE /\ now + dur <= MaxTime
             /\ out.t = "raise" => breaker.failures < MaxFailures
             /\ now' = now + dur
             /\ breaker' = settle(adm, out, now + dur)
             /\ called' = [op |-> "call", pre |-> breaker, at |-> now,
                           invoked |-> 1, seen |-> adm.state, did |-> out,
                           result |-> propagate(breaker', out)]
             /\ streak' = Cap(Streak(out))

\* CircuitBreaker.call(func): func does `out` and takes `dur`.
call(out, dur) ==
    LET adm == admit(breaker, now)
    IN  IF rejects(breaker, now)
        THEN /\ called' = [op |-> "call", pre |-> breaker, at |-> now,
                           invoked |-> 0, seen |-> "none", did |-> NotInvoked,
                           result |-> Raised(CircuitBreakerOpenError)]
             /\ streak' = Cap(Streak(NotInvoked))
             /\ UNCHANGED <<breaker, now>>
        ELSE /\ now + dur <= MaxTime
             /\ out.t = "raise" => breaker.failures < MaxFailures
             /\ now' = now + dur
             /\ breaker' = settle(adm, out, now + dur)
             /\ called' = [op |-> "call", pre |-> breaker, at |-> now,
                           invoked |-> 1, seen |-> adm.state, did |-> out,
                           result |-> propagate(breaker', out)]
             /\ streak' = Cap(Streak(out))

\* The property is_available: the value it returns.
available(self, t) ==
    IF self.state = "open"
    THEN IF timeout_elapsed(self, t) THEN TRUE ELSE FALSE
    ELSE TRUE

is_available_probing ==
    /\ called' = [op |-> "is_available", pre |-> breaker, at |-> now,
                  invoked |-> 0, seen |-> "none", did |-> NotInvoked,
                  result |-> Returned(IF available(breaker, now)
                                      THEN "True" ELSE "False")]
    /\ breaker' = admit(breaker, now)
    /\ UNCHANGED <<now, streak>>

is_available ==
    /\ called' = [op |-> "is_available", pre |-> breaker, at |-> now,
                  invoked |-> 0, seen |-> "none", did |-> NotInvoked,
                  result |-> Returned(IF available(breaker, now)
                                      THEN "True" ELSE "False")]
    /\ UNCHANGED <<breaker, now, streak>>

Tick ==
    /\ now < MaxTime
    /\ now' = now + 1
    /\ UNCHANGED <<breaker, called, streak>>

NoCall ==
    [op |-> "none", pre |-> CircuitBreaker(1, 0), at |-> 0, invoked |-> 0,
     seen |-> "none", did |-> NotInvoked, result |-> NotInvoked]

BreakerInit ==
    /\ \E F \in 1..MaxThreshold, T \in 0..MaxTimeout : breaker = CircuitBreaker(F, T)
    /\ now = 0
    /\ called = NoCall
    /\ streak = [any |-> 0, exc |-> 0]

\* -------------------------------------------------- retry_with_backoff
MaxRetries == 3
MaxBaseDelay == 2
MaxDelayCap == 3
PowCap == 10

\* 2 ** n is an int; multiplying it by the float base_delay converts it to a
\* float, which raises OverflowError from 2 ** 1024 on (sys.float_info.max_exp).
FloatMaxExp == 1024

\* The defaults of retry_with_backoff.
DefaultMaxRetries == 3
DefaultBaseDelay == 1
DefaultMaxDelay == 30
RETRYABLE_EXCEPTIONS == {"ConnectionError", "TimeoutError", "OSError"}

\* The fewest retries with which attempt number FloatMaxExp is followed by a
\* backoff.
LongRun == FloatMaxExp + 1

VARIABLES
    retry,       \* the decorator's arguments
    wrapper,     \* the running wrapper call: pc, attempt, last_exception
    call_count,  \* invocations of the wrapped function, and how many of them
                 \* raised a retryable exception
    did,         \* what the last invocation of the wrapped function did
    slept,       \* the calls of time.sleep: how many, the last two delays
    outcome      \* what the wrapper call returned or raised

rvars == <<retry, wrapper, call_count, did, slept, outcome>>

RetryOpKinds ==
    {"ConnectionError", "ConnectionResetError", "TimeoutError", "ValueError"}
RetryOpOutcomes ==
    {Returned(v) : v \in Results}
        \cup {Raised(Exc(k, m)) : k \in RetryOpKinds, m \in Msgs}

RetryableSets == {RETRYABLE_EXCEPTIONS, {"ConnectionError"}}

Decorator(R, B, M, classes) ==
    [max_retries |-> R, base_delay |-> B, max_delay |-> M,
     retryable_exceptions |-> classes]

RECURSIVE Pow2(_)
Pow2(n) == IF n = 0 THEN 1 ELSE 2 * Pow2(n - 1)

Min(a, b) == IF a <= b THEN a ELSE b

\* Line 73 raises OverflowError instead of yielding a delay.
delay_overflows(attempt) == attempt >= FloatMaxExp

\* Line 73: min(base_delay * (2 ** attempt), max_delay). Past PowCap the power
\* is held at 2 ** PowCap, which is above every max_delay here: the minimum is
\* the same (max_delay, or 0 when base_delay is 0).
backoff(base_delay, attempt, max_delay) ==
    Min(base_delay * Pow2(Min(attempt, PowCap)), max_delay)

returns_and_goes_on(w, out) ==
    [w |-> [w EXCEPT !.attempt = @ + 1], outcome |-> NotInvoked, sleep |-> -1]

\* Line 63: the function returned, and so does the wrapper.
returns(w, out) == [w |-> [w EXCEPT !.pc = "done"], outcome |-> out, sleep |-> -1]

exhausted_synthetic(w, e) ==
    [w |-> [w EXCEPT !.pc = "done", !.last_exception = e],
     outcome |-> Raised(Exc("RuntimeError", "retries exhausted")), sleep |-> -1]

\* Lines 64-71: the last attempt raised the retryable e; a bare `raise`.
exhausted(w, e) ==
    [w |-> [w EXCEPT !.pc = "done", !.last_exception = e],
     outcome |-> Raised(e), sleep |-> -1]

escapes_retried(w, e) ==
    [w |-> [w EXCEPT !.attempt = @ + 1, !.last_exception = e],
     outcome |-> NotInvoked, sleep |-> 0]

\* An exception no `except` clause of the wrapper matches leaves the wrapper.
escapes(w, e) == [w |-> [w EXCEPT !.pc = "done"], outcome |-> Raised(e), sleep |-> -1]

\* Lines 65-78: an earlier attempt raised the retryable e: back off, go on.
backs_off(cfg, w, e) ==
    IF delay_overflows(w.attempt)
    THEN [w |-> [w EXCEPT !.pc = "done", !.last_exception = e],
          outcome |-> Raised(Exc("OverflowError", "int too large to convert to float")),
          sleep |-> -1]
    ELSE [w |-> [w EXCEPT !.attempt = @ + 1, !.last_exception = e],
          outcome |-> NotInvoked,
          sleep |-> backoff(cfg.base_delay, w.attempt, cfg.max_delay)]

\* Lines 62-78: one pass of the loop, in which func did `out`.
attempt_step(cfg, w, out) ==
    IF out.t = "return" THEN returns(w, out)
    ELSE IF Catches(cfg.retryable_exceptions, out.e)
         THEN IF w.attempt = cfg.max_retries
              THEN exhausted(w, out.e)
              ELSE backs_off(cfg, w, out.e)
         ELSE escapes(w, out.e)

\* One iteration of `for attempt in range(max_retries + 1)`.
retry_attempt(out) ==
    /\ wrapper.pc = "loop"
    /\ wrapper.attempt < retry.max_retries + 1
    /\ LET next == attempt_step(retry, wrapper, out)
       IN  /\ wrapper' = next.w
           /\ outcome' = next.outcome
           /\ slept' = IF next.sleep >= 0
                       THEN [n |-> slept.n + 1, last |-> next.sleep, prev |-> slept.last]
                       ELSE slept
    /\ call_count' =
          [total |-> call_count.total + 1,
           retryable |-> call_count.retryable
               + IF out.t = "raise" /\ Catches(retry.retryable_exceptions, out.e)
                 THEN 1 ELSE 0]
    /\ did' = out
    /\ UNCHANGED retry

\* Line 80: the loop ran out without returning or raising, which takes an
\* empty range; last_exception is None, and `raise None` is a TypeError.
retry_loop_end ==
    /\ wrapper.pc = "loop"
    /\ ~(wrapper.attempt < retry.max_retries + 1)
    /\ wrapper' = [wrapper EXCEPT !.pc = "done"]
    /\ outcome' = Raised(IF wrapper.last_exception = NoExc
                         THEN Exc("TypeError", "exceptions must derive from BaseException")
                         ELSE wrapper.last_exception)
    /\ UNCHANGED <<retry, call_count, did, slept>>

RetryStart(cfg) ==
    /\ retry = cfg
    /\ wrapper = [pc |-> "loop", attempt |-> 0, last_exception |-> NoExc]
    /\ call_count = [total |-> 0, retryable |-> 0]
    /\ did = NotInvoked
    /\ slept = [n |-> 0, last |-> 0, prev |-> 0]
    /\ outcome = NotInvoked

RetryConfigs ==
    {Decorator(R, B, M, c) : R \in -1..MaxRetries, B \in 0..MaxBaseDelay,
                             M \in 1..MaxDelayCap, c \in RetryableSets}
        \cup {Decorator(LongRun, DefaultBaseDelay, DefaultMaxDelay, RETRYABLE_EXCEPTIONS)}

RetryInit == \E cfg \in RetryConfigs : RetryStart(cfg)

\* ------------------------------------- circuit breaker, concurrent callers
\* The module-level breakers (lines 186-188) are shared by every thread of
\* the process and CircuitBreaker takes no lock: the statements of `call`,
\* `_on_success` and `_on_failure` of different threads interleave.
MaxThreads == 2
MaxThreadCalls == 3

VARIABLES
    threads,    \* per thread: where it stands inside `call`, and its registers
    tally       \* calls finished so far, by how they ended

tvars == <<threads, tally>>

Threads == 1..MaxThreads

ThreadOpOutcomes == {Returned("ok"), Raised(Exc("ConnectionError", "m1"))}

Idle == [pc |-> "idle", seen |-> "none", n |-> 0]

Started == tally.returned + tally.raised + tally.rejected
              + Cardinality({t \in Threads : threads[t].pc # "idle"})

Count(field) == [tally EXCEPT ![field] = @ + 1]

\* Lines 132-141: the test of the state; the caller is let through or gets
\* CircuitBreakerOpenError.
thread_call(t) ==
    /\ threads[t].pc = "idle"
    /\ Started < MaxThreadCalls
    /\ IF rejects(breaker, now)
       THEN /\ tally' = Count("rejected")
            /\ UNCHANGED <<breaker, threads>>
       ELSE /\ breaker' = admit(breaker, now)
            /\ threads' = [threads EXCEPT ![t] =
                              [pc |-> "try", seen |-> breaker'.state, n |-> 0]]
            /\ UNCHANGED tally
    /\ UNCHANGED <<now, called, streak>>

\* Line 144: func is invoked.
thread_invoke(t) ==
    /\ threads[t].pc = "try"
    /\ threads' = [threads EXCEPT ![t].pc = "running"]
    /\ UNCHANGED <<breaker, now, called, streak, tally>>

\* Lines 144-146: func returns and _on_success records it.
thread_return(t, out) ==
    /\ threads[t].pc = "running"
    /\ out.t = "return"
    /\ breaker' = on_success(breaker)
    /\ threads' = [threads EXCEPT ![t] = Idle]
    /\ tally' = Count("returned")
    /\ UNCHANGED <<now, called, streak>>

\* Lines 147-148 and the first half of line 160: func raises an Exception
\* and `self.failures += 1` loads self.failures.
thread_raise(t, out) ==
    /\ threads[t].pc = "running"
    /\ out.t = "raise" /\ Catches({"Exception"}, out.e)
    /\ threads' = [threads EXCEPT ![t].pc = "loaded", ![t].n = breaker.failures]
    /\ UNCHANGED <<breaker, now, called, streak, tally>>

\* The second half of line 160: the sum is stored into self.failures.
thread_store(t) ==
    /\ threads[t].pc = "loaded"
    /\ breaker' = [breaker EXCEPT !.failures = threads[t].n + 1]
    /\ threads' = [threads EXCEPT ![t].pc = "stored"]
    /\ UNCHANGED <<now, called, streak, tally>>

\* Lines 161-164 and 149: the time of the failure, the test of the
\* threshold, and the exception goes on to the caller.
thread_trip(t) ==
    /\ threads[t].pc = "stored"
    /\ breaker' = [breaker EXCEPT
                      !.last_failure_time = now,
                      !.state = IF breaker.failures >= breaker.failure_threshold
                                THEN "open" ELSE @]
    /\ threads' = [threads EXCEPT ![t] = Idle]
    /\ tally' = Count("raised")
    /\ UNCHANGED <<now, called, streak>>

ThreadInit ==
    /\ threads = [t \in Threads |-> Idle]
    /\ tally = [returned |-> 0, raised |-> 0, rejected |-> 0]

\* ------------------------------------------- review feedback and its store
MaxIssues == 1
MaxClock == 1
MaxReviews == 2

VARIABLES
    review_feedback,    \* the Firestore collection FEEDBACK_COLLECTION
    session,            \* st.session_state: review_status and review_reasons
    clock,              \* datetime.now(timezone.utc)
    reviewed            \* the last review action or write, what came of it,
                        \* and how many there have been

fvars == <<review_feedback, session, clock, reviewed>>

Decisions == {"approved", "denied"}
Reasons == {"", "r1"}
StoreStates == {"up", "no_client", "set_raises"}
ScanId == "scan1"

\* f"{scan_id}_issue_{i}" for the i-th issue of the scan.
issue_key(scan_id, i) == [scan |-> scan_id, n |-> i]

IssueKeys == {issue_key(ScanId, i) : i \in 0..(MaxIssues - 1)}

\* The issue dict of a scan result: its category and its old text. The text
\* of an even issue is longer than the 80 characters compare_text_node keeps.
Issue(key) ==
    [category |-> IF key.n % 2 = 0 THEN "terminology" ELSE "navigation",
     old |-> [of |-> key.n, len |-> IF key.n % 2 = 0 THEN 120 ELSE 40]]

\* A collection is a bag of documents [id, data]. document(doc_id).set(data)
\* replaces the document of that id.
document_add(coll, doc_id, data) ==
    LET doc == [id |-> doc_id, data |-> data]
    IN  [d \in DOMAIN coll \cup {doc} |->
            IF d = doc
            THEN (IF doc \in DOMAIN coll THEN coll[doc] + 1 ELSE 1)
            ELSE coll[d]]

document_set(coll, doc_id, data) ==
    LET doc == [id |-> doc_id, data |-> data]
        rest == {d \in DOMAIN coll : d.id # doc_id}
    IN  [d \in rest \cup {doc} |-> IF d = doc THEN 1 ELSE coll[d]]

\* What _get_client and doc_ref.set do in each state of the store.
set_outcome(avail) ==
    IF avail = "set_raises" THEN Raised(Exc("ConnectionError", "m1"))
    ELSE Returned("ok")

\* firestore_service.save_review_feedback(feedback): the collection
\* afterwards, the value returned and the exception that leaves the function.
save_review_feedback(coll, feedback, avail) ==
    LET doc_id == [prefix |-> "", key |-> feedback.issue_key]
        out == set_outcome(avail)
    IN  IF avail = "no_client"
        THEN [coll |-> coll, ret |-> "None", exc |-> NoExc]
        ELSE IF out.t = "raise"
        THEN [coll |-> coll, ret |-> "None",
              exc |-> IF Catches({"Exception"}, out.e) THEN NoExc ELSE out.e]
        ELSE [coll |-> document_set(coll, doc_id, feedback),
              ret |-> "doc_id", exc |-> NoExc]

\* rag_service.save_review_feedback(scan_id, issue_key, decision, reason, ...)
\* at time t.
rag_save_review_feedback(coll, scan_id, key, decision, reason, t, avail) ==
    LET doc_id == [prefix |-> scan_id, key |-> key]
        feedback == [scan_id |-> scan_id, issue_key |-> key,
                     decision |-> decision, reason |-> reason,
                     issue_category |-> Issue(key).category,
                     issue_detail |-> Issue(key).old,
                     timestamp |-> t,
                     is_false_positive |-> IF decision = "denied"
                                           THEN "True" ELSE "False",
                     is_valid_issue |-> IF decision = "approved"
                                        THEN "True" ELSE "False"]
        out == set_outcome(avail)
    IN  IF avail = "no_client"
        THEN [coll |-> coll, ret |-> "None", exc |-> NoExc, feedback |-> feedback]
        ELSE IF out.t = "raise"
        THEN [coll |-> coll, ret |-> "None", feedback |-> feedback,
              exc |-> IF Catches({"Exception"}, out.e) THEN NoExc ELSE out.e]
        ELSE [coll |-> document_set(coll, doc_id, feedback),
              ret |-> "doc_id", exc |-> NoExc, feedback |-> feedback]

_save_review_feedback_rollback(sess, coll, scan_id, key, decision, reason, t, avail) ==
    LET feedback == [scan_id |-> scan_id, issue_key |-> key,
                     decision |-> decision, reason |-> reason,
                     issue_category |-> Issue(key).category,
                     issue_detail |-> Issue(key).old,
                     timestamp |-> t,
                     is_false_positive |-> "absent", is_valid_issue |-> "absent"]
        r == save_review_feedback(coll, feedback, avail)
    IN  [session |-> IF r.ret = "None" THEN sess
                     ELSE [sess EXCEPT !.review_reasons[key] = reason],
         coll |-> r.coll, exc |-> NoExc, feedback |-> feedback]

\* admin_view._save_review_feedback(scan_id, issue_key, decision, reason,
\* issue) at time t: the session and the collection afterwards.
_save_review_feedback(sess, coll, scan_id, key, decision, reason, t, avail) ==
    LET feedback == [scan_id |-> scan_id, issue_key |-> key,
                     decision |-> decision, reason |-> reason,
                     issue_category |-> Issue(key).category,
                     issue_detail |-> Issue(key).old,
                     timestamp |-> t,
                     is_false_positive |-> "absent", is_valid_issue |-> "absent"]
        r == save_review_feedback(coll, feedback, avail)
        caught == r.exc # NoExc /\ Catches({"Exception"}, r.exc)
    IN  IF r.exc # NoExc /\ ~caught
        THEN [session |-> sess, coll |-> r.coll, exc |-> r.exc,
              feedback |-> feedback]
        ELSE [session |-> [sess EXCEPT !.review_reasons[key] = reason],
              coll |-> r.coll, exc |-> NoExc, feedback |-> feedback]

Held(coll, doc_id, data) == [id |-> doc_id, data |-> data] \in DOMAIN coll

\* Lines 903-907 and 910-914: the reviewer presses the button of a decision.
click(decision, key, reason, avail) ==
    LET marked == [session EXCEPT !.review_status[key] = decision]
        r == _save_review_feedback(marked, review_feedback, ScanId, key,
                                        decision, reason, clock, avail)
        doc_id == [prefix |-> "", key |-> key]
    IN  /\ reviewed.n < MaxReviews
        /\ session' = r.session
        /\ review_feedback' = r.coll
        /\ reviewed' = [op |-> "review", id |-> doc_id, data |-> r.feedback,
                        avail |-> avail, exc |-> r.exc, n |-> reviewed.n + 1,
                        rewrote |-> Held(review_feedback, doc_id, r.feedback)]
        /\ UNCHANGED clock

approve(key, reason, avail) == click("approved", key, reason, avail)

deny(key, reason, avail) == click("denied", key, reason, avail)

\* A direct call of rag_service.save_review_feedback.
rag_save(key, decision, reason, avail) ==
    LET r == rag_save_review_feedback(review_feedback, ScanId, key, decision,
                                      reason, clock, avail)
        doc_id == [prefix |-> ScanId, key |-> key]
    IN  /\ reviewed.n < MaxReviews
        /\ review_feedback' = r.coll
        /\ reviewed' = [op |-> "rag_save", id |-> doc_id, data |-> r.feedback,
                        avail |-> avail, exc |-> r.exc, n |-> reviewed.n + 1,
                        rewrote |-> Held(review_feedback, doc_id, r.feedback)]
        /\ UNCHANGED <<session, clock>>

Tock ==
    /\ clock < MaxClock
    /\ clock' = clock + 1
    /\ UNCHANGED <<review_feedback, session, reviewed>>

NoFeedback ==
    [scan_id |-> ScanId, issue_key |-> issue_key(ScanId, 0),
     decision |-> "none", reason |-> "", issue_category |-> "",
     issue_detail |-> [of |-> 0, len |-> 0], timestamp |-> 0,
     is_false_positive |-> "absent", is_valid_issue |-> "absent"]

NoReview ==
    [op |-> "none", id |-> [prefix |-> "", key |-> issue_key(ScanId, 0)],
     data |-> NoFeedback, avail |-> "up", exc |-> NoExc, n |-> 0,
     rewrote |-> FALSE]

EmptyCollection == [d \in {} |-> 0]

NoSession ==
    [review_status |-> [k \in IssueKeys |-> "none"],
     review_reasons |-> [k \in IssueKeys |-> "unset"]]

ReviewInit ==
    /\ review_feedback = EmptyCollection
    /\ session = NoSession
    /\ clock = 0
    /\ reviewed = NoReview

\* ----------------------------------------------------------- the pipeline
MaxDocs == 1
MaxItems == 2

\* get_recent_feedback(limit=20) and detail[:80] of compare_text_node.
RecentLimit == 20
DetailBudget == 80

VARIABLES
    agent_state,    \* the AgentState dict the graph passes from node to node
    run,            \* the node to run next; inside compare_text_node, its locals
    trace,          \* the nodes run so far, in order
    llm_calls,      \* the calls of compare_text so far: document, context, answer
    loads,          \* the calls of get_recent_feedback so far and their results
    faults          \* which collaborators have failed in this run, and how
                    \* many documents the search returned

pvars == <<agent_state, run, trace, llm_calls, loads, faults>>

\* graph.set_entry_point and graph.add_edge of build_graph.
entry_point == "fetch_source"

next_node_skipping(node) ==
    CASE node = "fetch_source" -> "search_related"
      [] node = "search_related" -> "compare_text"
      [] node = "compare_text" -> "suggest"
      [] node = "compare_images" -> "suggest"
      [] OTHER -> "END"

next_node(node) ==
    CASE node = "fetch_source" -> "search_related"
      [] node = "search_related" -> "compare_text"
      [] node = "compare_text" -> "compare_images"
      [] node = "compare_images" -> "suggest"
      [] OTHER -> "END"

CollaboratorErrors == {Exc("ConnectionError", "m1"), Exc("ValueError", "m2")}

\* ---- fetch_source
FetchOutcomes == {Returned("doc")} \cup {Raised(e) : e \in CollaboratorErrors}

fetch_source_transient_only(st, out) ==
    IF out.t = "return"
    THEN [state |-> [st EXCEPT !.source_text = out.v, !.logs = @ + 2,
                               !.current_step = "fetch_source"],
          exc |-> NoExc]
    ELSE IF Catches({"ConnectionError"}, out.e)
    THEN [state |-> [st EXCEPT !.source_text = "demo_text", !.logs = @ + 2,
                               !.current_step = "fetch_source"],
          exc |-> NoExc]
    ELSE [state |-> st, exc |-> out.e]

\* fetch_source(state) when export_google_doc does `out`: the state after
\* the node's update and the exception that leaves the node.
fetch_source(st, out) ==
    IF out.t = "return"
    THEN [state |-> [st EXCEPT !.source_text = out.v, !.logs = @ + 2,
                               !.current_step = "fetch_source"],
          exc |-> NoExc]
    ELSE IF Catches({"Exception"}, out.e)
    THEN [state |-> [st EXCEPT !.source_text = "demo_text", !.logs = @ + 2,
                               !.current_step = "fetch_source"],
          exc |-> NoExc]
    ELSE [state |-> st, exc |-> out.e]

\* ---- search_related
Doc(origin, i) == [title |-> [origin |-> origin, n |-> i],
                   doc_id |-> [origin |-> origin, n |-> i]]

fallback_docs == <<Doc("fallback", 1), Doc("fallback", 2)>>

SearchOutcomes ==
    {[t |-> "return", docs |-> [i \in 1..n |-> Doc("search", i)], e |-> NoExc] :
        n \in 0..MaxDocs}
      \cup {[t |-> "raise", docs |-> <<>>, e |-> e] : e \in CollaboratorErrors}

search_related_keeping_empty(st, out) ==
    IF out.t = "return"
    THEN [state |-> [st EXCEPT !.related_docs = out.docs, !.logs = @ + 2,
                               !.current_step = "search_related"],
          exc |-> NoExc]
    ELSE IF Catches({"Exception"}, out.e)
    THEN [state |-> [st EXCEPT !.related_docs = fallback_docs,
                               !.logs = @ + 3,
                               !.current_step = "search_related"],
          exc |-> NoExc]
    ELSE [state |-> st, exc |-> out.e]

\* search_related(state) when search_related_docs does `out`; an empty
\* result raises ValueError inside the try.
search_related(st, out) ==
    LET got == IF out.t = "return" /\ out.docs = <<>>
               THEN [t |-> "raise", docs |-> <<>>,
                     e |-> Exc("ValueError", "No results returned")]
               ELSE out
    IN  IF got.t = "return"
        THEN [state |-> [st EXCEPT !.related_docs = got.docs, !.logs = @ + 2,
                                   !.current_step = "search_related"],
              exc |-> NoExc]
        ELSE IF Catches({"Exception"}, got.e)
        THEN [state |-> [st EXCEPT !.related_docs = fallback_docs,
                                   !.logs = @ + 3,
                                   !.current_step = "search_related"],
              exc |-> NoExc]
        ELSE [state |-> st, exc |-> got.e]

\* ---- the feedback context of compare_text_node
FeedbackReads == {"up", "no_client", "stream_raises"}

\* order_by("timestamp", DESCENDING); equal timestamps by document name.
Newer(d, e) ==
    LET name(x) == (IF x.id.prefix = "" THEN 0 ELSE MaxIssues) + x.id.key.n
    IN  \/ d.data.timestamp > e.data.timestamp
        \/ d.data.timestamp = e.data.timestamp /\ name(d) >= name(e)

RECURSIVE newest_first(_)
newest_first(docs) ==
    IF docs = {} THEN <<>>
    ELSE LET top == CHOOSE d \in docs : \A e \in docs : Newer(d, e)
         IN  <<top.data>> \o newest_first(docs \ {top})

\* firestore_service.get_recent_feedback(limit).
get_recent_feedback(coll, limit, avail) ==
    IF avail = "no_client" THEN <<>>
    ELSE IF avail = "stream_raises" THEN <<>>
    ELSE LET all == newest_first(DOMAIN coll)
         IN  SubSeq(all, 1, Min(limit, Len(all)))

render_feedback_reasoned_only(entries) ==
    LET line(fb) ==
            [category |-> fb.issue_category,
             decision |-> IF fb.decision = "approved" THEN "shounin" ELSE "kyakka",
             reason |-> fb.reason,
             form |-> "with_reason",
             detail |-> [fb.issue_detail EXCEPT !.len = Min(@, DetailBudget)]]
    IN  SelectSeq([i \in DOMAIN entries |-> line(entries[i])],
                  LAMBDA l : l.reason # "")

\* Lines 102-113: one line per entry, joined by newlines.
render_feedback(entries) ==
    LET line(fb) ==
            [category |-> fb.issue_category,
             decision |-> IF fb.decision = "approved" THEN "shounin" ELSE "kyakka",
             reason |-> fb.reason,
             form |-> IF fb.reason # "" THEN "with_reason" ELSE "plain",
             detail |-> [fb.issue_detail EXCEPT !.len = Min(@, DetailBudget)]]
    IN  [i \in DOMAIN entries |-> line(entries[i])]

\* ---- compare_text and the findings of one document
NoTitle == [origin |-> "unset", n |-> 0]

\* A finding dict: `text` stands for its category, message, suggestion,
\* old_text and new_text; `kind` is not a key of the dict, it records where
\* the dict came from.
Item(severity, old_doc, text) ==
    [kind |-> "model", old_doc |-> old_doc, doc_id |-> old_doc,
     severity |-> severity, text |-> text]

\* The model answers what it likes; here, the terminology change that lines
\* 158-167 also describe, in the same words.
ModelItems == {Item("warning", NoTitle, "dashboard_renamed")}

RECURSIVE SeqsUpTo(_, _)
SeqsUpTo(S, n) ==
    IF n = 0 THEN {<<>>}
    ELSE LET shorter == SeqsUpTo(S, n - 1)
         IN  shorter \cup {Append(s, x) : s \in shorter, x \in S}

\* What model.generate_content answers: a JSON list of items, a JSON object
\* with or without a "contradictions" list (its item names its document and
\* a severity outside the three of the prompt), a list holding a non-object,
\* text that is not JSON, or an exception.
LLMResponses ==
    {[shape |-> "json_list", items |-> s, e |-> NoExc] : s \in SeqsUpTo(ModelItems, MaxItems)}
      \cup {[shape |-> sh,
              items |-> <<Item("high", [origin |-> "model", n |-> 0], "other")>>,
              e |-> NoExc] :
              sh \in {"json_object", "json_object_text", "json_object_other",
                      "json_list_of_text", "not_json"}}
      \cup {[shape |-> "raise", items |-> <<>>, e |-> e] : e \in CollaboratorErrors}

\* vertex_ai_service.compare_text: generate_content is invoked once and its
\* exception re-raised; the answer is parsed into result["contradictions"].
compare_text(resp) ==
    CASE resp.shape = "raise" ->
            [t |-> "raise", kind |-> "none", items |-> <<>>, e |-> resp.e, invoked |-> 1]
      [] resp.shape \in {"json_list", "json_object"} ->
            [t |-> "return", kind |-> "list", items |-> resp.items, e |-> NoExc, invoked |-> 1]
      [] resp.shape = "json_object_text" ->
            [t |-> "return", kind |-> "text", items |-> <<>>, e |-> NoExc, invoked |-> 1]
      [] resp.shape = "json_list_of_text" ->
            [t |-> "return", kind |-> "list_of_text", items |-> <<>>, e |-> NoExc, invoked |-> 1]
      [] resp.shape = "not_json" ->
            [t |-> "return", kind |-> "list",
             items |-> <<Item("absent", NoTitle, "raw_text")>>,
             e |-> NoExc, invoked |-> 1]
      [] OTHER ->
            [t |-> "return", kind |-> "list", items |-> <<>>, e |-> NoExc, invoked |-> 1]

fallback_findings_single(doc) ==
    <<[kind |-> "fallback", old_doc |-> doc.title, doc_id |-> doc.doc_id,
       severity |-> "critical", text |-> "gear_icon"]>>

\* Lines 147-168: the two findings used when the comparison fails.
fallback_findings(doc) ==
    <<[kind |-> "fallback", old_doc |-> doc.title, doc_id |-> doc.doc_id,
       severity |-> "critical", text |-> "gear_icon"],
      [kind |-> "fallback", old_doc |-> doc.title, doc_id |-> doc.doc_id,
       severity |-> "warning", text |-> "dashboard_renamed"]>>

\* Lines 125-169: the findings the loop body adds for `doc` when
\* compare_text did `res`. item.setdefault on an item that is not a dict
\* raises AttributeError inside the try.
doc_findings(doc, res) ==
    LET setdefault(item) ==
            [item EXCEPT !.old_doc = IF @ = NoTitle THEN doc.title ELSE @,
                         !.doc_id = IF @ = NoTitle THEN doc.doc_id ELSE @]
    IN  CASE res.t = "raise" /\ Catches({"Exception"}, res.e) -> fallback_findings(doc)
          [] res.t = "return" /\ res.kind = "list" ->
                [i \in DOMAIN res.items |-> setdefault(res.items[i])]
          [] res.t = "return" /\ res.kind = "list_of_text" -> fallback_findings(doc)
          [] res.t = "return" /\ res.kind = "text" ->
                <<[kind |-> "raw", old_doc |-> doc.title, doc_id |-> doc.doc_id,
                   severity |-> "absent", text |-> "raw_text"]>>
          [] OTHER -> <<>>

\* ---- the nodes as steps of one run
Locals == [at |-> "entry", i |-> 0, feedback_context |-> <<>>,
           contradictions |-> <<>>, logs |-> 0]

\* The graph engine after a node: follow the edge, or stop on the exception.
Advance(node, exc) ==
    IF exc = NoExc
    THEN [node |-> next_node(node), exc |-> NoExc, locals |-> Locals]
    ELSE [node |-> node, exc |-> exc, locals |-> Locals]

Ready(node) == run.node = node /\ run.exc = NoExc

fetch(out) ==
    LET r == fetch_source(agent_state, out)
    IN  /\ Ready("fetch_source")
        /\ agent_state' = r.state
        /\ run' = Advance("fetch_source", r.exc)
        /\ trace' = Append(trace, "fetch_source")
        /\ faults' = [faults EXCEPT !.fetch = (out.t = "raise")]
        /\ UNCHANGED <<llm_calls, loads>>

search(out) ==
    LET r == search_related(agent_state, out)
    IN  /\ Ready("search_related")
        /\ agent_state' = r.state
        /\ run' = Advance("search_related", r.exc)
        /\ trace' = Append(trace, "search_related")
        /\ faults' = [faults EXCEPT !.search = (out.t = "raise"),
                                    !.found = Len(out.docs)]
        /\ UNCHANGED <<llm_calls, loads>>

\* Lines 88-119 of compare_text_node: nothing to compare, or the feedback
\* context is built and the loop is entered.
compare_text_load(avail) ==
    /\ Ready("compare_text") /\ run.locals.at = "entry"
    /\ trace' = Append(trace, "compare_text")
    /\ IF agent_state.related_docs = <<>>
       THEN /\ agent_state' = [agent_state EXCEPT !.contradictions = <<>>,
                                  !.logs = @ + 1, !.current_step = "compare_text"]
            /\ run' = Advance("compare_text", NoExc)
            /\ UNCHANGED <<loads, faults>>
       ELSE LET entries == get_recent_feedback(review_feedback, RecentLimit, avail)
            IN  /\ loads' = Append(loads, [avail |-> avail, entries |-> entries])
                /\ run' = [run EXCEPT !.locals =
                              [at |-> "loop", i |-> 1,
                               feedback_context |-> render_feedback(entries),
                               contradictions |-> <<>>,
                               logs |-> agent_state.logs + 1
                                          + (IF entries # <<>> THEN 1 ELSE 0)]]
                /\ faults' = [faults EXCEPT !.feedback = (avail # "up")]
                /\ UNCHANGED agent_state
    /\ UNCHANGED llm_calls

\* Lines 121-172: the loop body for the next related document; after the
\* last one the node returns its update.
compare_text_doc(resp) ==
    LET l == run.locals
        doc == agent_state.related_docs[l.i]
        res == compare_text(resp)
        failed == res.t = "raise" \/ res.kind = "list_of_text"
        found == l.contradictions \o doc_findings(doc, res)
        logged == l.logs + 1 + (IF failed THEN 1 ELSE 0)
    IN  /\ Ready("compare_text") /\ l.at = "loop"
        /\ llm_calls' = Append(llm_calls,
                               [doc |-> doc, feedback_context |-> l.feedback_context,
                                resp |-> resp, invoked |-> res.invoked])
        /\ faults' = [faults EXCEPT !.compare = @ \/ res.t = "raise"]
        /\ IF res.t = "raise" /\ ~Catches({"Exception"}, res.e)
           THEN /\ run' = Advance("compare_text", res.e)
                /\ UNCHANGED agent_state
           ELSE IF l.i = Len(agent_state.related_docs)
           THEN /\ agent_state' = [agent_state EXCEPT
                                      !.contradictions = found,
                                      !.feedback_context = l.feedback_context,
                                      !.logs = logged + 1,
                                      !.current_step = "compare_text"]
                /\ run' = Advance("compare_text", NoExc)
           ELSE /\ run' = [run EXCEPT !.locals.i = @ + 1,
                                      !.locals.contradictions = found,
                                      !.locals.logs = logged]
                /\ UNCHANGED agent_state
        /\ UNCHANGED <<trace, loads>>

compare_images_pruning ==
    /\ Ready("compare_images")
    /\ agent_state' = [agent_state EXCEPT
                          !.contradictions = <<>>,
                          !.visual_decays = <<[doc_title |-> "manual v2.1",
                                               severity |-> "info"]>>,
                          !.logs = @ + 2, !.current_step = "compare_images"]
    /\ run' = Advance("compare_images", NoExc)
    /\ trace' = Append(trace, "compare_images")
    /\ UNCHANGED <<llm_calls, loads, faults>>

compare_images ==
    /\ Ready("compare_images")
    /\ agent_state' = [agent_state EXCEPT
                          !.visual_decays = <<[doc_title |-> "manual v2.1",
                                               severity |-> "info"]>>,
                          !.logs = @ + 2, !.current_step = "compare_images"]
    /\ run' = Advance("compare_images", NoExc)
    /\ trace' = Append(trace, "compare_images")
    /\ UNCHANGED <<llm_calls, loads, faults>>

\* generate_suggestions: one suggestion per contradiction and per decay.
suggest ==
    LET c == agent_state.contradictions
        v == agent_state.visual_decays
    IN  /\ Ready("suggest")
        /\ agent_state' = [agent_state EXCEPT
               !.suggestions =
                   [i \in DOMAIN c |-> [type |-> "semantic_pruning",
                                        doc_id |-> c[i].doc_id,
                                        status |-> "proposed"]]
                     \o [i \in DOMAIN v |-> [type |-> "visual_freshness",
                                             doc_id |-> NoTitle,
                                             status |-> "proposed"]],
               !.logs = @ + 2, !.current_step = "done"]
        /\ run' = Advance("suggest", NoExc)
        /\ trace' = Append(trace, "suggest")
        /\ UNCHANGED <<llm_calls, loads, faults>>

\* webhook._run_pipeline: the state handed to agent_graph.invoke.
initial_state ==
    [source_text |-> "", related_docs |-> <<>>, contradictions |-> <<>>,
     visual_decays |-> <<>>, suggestions |-> <<>>, feedback_context |-> <<>>,
     logs |-> 0, current_step |-> "init"]

PipelineInit ==
    /\ agent_state = initial_state
    /\ run = [node |-> entry_point, exc |-> NoExc, locals |-> Locals]
    /\ trace = <<>>
    /\ llm_calls = <<>>
    /\ loads = <<>>
    /\ faults = [fetch |-> FALSE, search |-> FALSE, feedback |-> FALSE,
                 compare |-> FALSE, found |-> 0]

\* The collections review actions leave behind before a run starts.
Stores ==
    LET admin == {_save_review_feedback(NoSession, EmptyCollection, ScanId, k,
                                        d, r, 0, "up").coll :
                     k \in IssueKeys, d \in Decisions, r \in Reasons}
        both == {rag_save_review_feedback(c, ScanId, issue_key(ScanId, 0),
                                          "denied", "r1", t, "up").coll :
                    c \in admin, t \in {0, MaxClock}}
    IN  {EmptyCollection} \cup admin \cup both

\* ---------------------------------------- rag_service.get_feedback_context
MaxEntries == 6

\* limit=10 of get_feedback_context, [:5] of each group and [:100] of the
\* issue detail.
DefaultLimit == 10
GroupCap == 5
ContextDetailBudget == 100

\* The reason a reviewer types into st.text_input, which sets no max_chars:
\* "r1" stands for one of this many characters.
MaxReasonChars == 5000

VARIABLES
    rag_context \* the last call of get_feedback_context: its arguments, the
                \* entries fetched and the lines of the string returned

xvars == <<rag_context>>

Writers == {"rag", "dashboard"}
Limits == {2, DefaultLimit}
Categories == {"", "terminology"}

\* len() of the text a value of the model stands for.
chars(text) ==
    CASE text = "" -> 0
      [] text = "r1" -> MaxReasonChars
      [] text = "terminology" -> 11
      [] text = "navigation" -> 10
      [] OTHER -> 1

\* seq[:n]
take(seq, n) == SubSeq(seq, 1, Min(n, Len(seq)))

\* Lines 143 and 152: the header of a group; the second one begins with "\n".
header(group) ==
    [form |-> "header", group |-> group, of |-> NoFeedback,
     detail |-> 0, length |-> IF group = "approved" THEN 15 ELSE 32]

\* Lines 145-149 and 155-159: the bullet line of an entry; issue_severity is
\* "" in what rag_service writes.
bullet(group, fb) ==
    LET detail == Min(fb.issue_detail.len, ContextDetailBudget)
    IN  [form |-> "bullet", group |-> group, of |-> fb, detail |-> detail,
         length |-> IF group = "approved"
                    THEN 21 + chars(fb.issue_category) + detail
                    ELSE 22 + chars(fb.issue_category) + detail + chars(fb.reason)]

\* get_feedback_context(category, limit): the entries fetched and the lines
\* that "\n".join makes the returned string of.
get_feedback_context(coll, category, limit, avail) ==
    LET docs == {d \in DOMAIN coll :
                    category # "" => d.data.issue_category = category}
        feedback_entries ==
            IF avail = "up" THEN take(newest_first(docs), limit) ELSE <<>>
        approved == SelectSeq(feedback_entries,
                              LAMBDA f : f.is_valid_issue = "True")
        denied == SelectSeq(feedback_entries,
                            LAMBDA f : f.is_false_positive = "True")
        shown_a == take(approved, GroupCap)
        shown_d == take(denied, GroupCap)
    IN  [fetched |-> feedback_entries,
         lines |->
            (IF approved # <<>>
             THEN <<header("approved")>>
                     \o [i \in DOMAIN shown_a |-> bullet("approved", shown_a[i])]
             ELSE <<>>)
            \o (IF denied # <<>>
                THEN <<header("denied")>>
                        \o [i \in DOMAIN shown_d |-> bullet("denied", shown_d[i])]
                ELSE <<>>)]

\* The call of get_feedback_context.
feedback_context(category, limit, avail) ==
    LET r == get_feedback_context(review_feedback, category, limit, avail)
    IN  /\ ~rag_context.called
        /\ rag_context' = [called |-> TRUE, category |-> category, limit |-> limit,
                       avail |-> avail, fetched |-> r.fetched, lines |-> r.lines]
        /\ UNCHANGED review_feedback

NoContext ==
    [called |-> FALSE, category |-> "", limit |-> 0, avail |-> "up",
     fetched |-> <<>>, lines |-> <<>>]

\* The i-th review of a scan written at time i, by rag_service or through
\* the dashboard.
written(coll, i, writer, decision) ==
    LET key == issue_key(ScanId, i)
        reason == IF decision = "denied" THEN "r1" ELSE ""
    IN  IF writer = "rag"
        THEN rag_save_review_feedback(coll, ScanId, key, decision, reason,
                                      i, "up").coll
        ELSE save_review_feedback(
                 coll,
                 [scan_id |-> ScanId, issue_key |-> key, decision |-> decision,
                  reason |-> reason, issue_category |-> Issue(key).category,
                  issue_detail |-> Issue(key).old, timestamp |-> i,
                  is_false_positive |-> "absent", is_valid_issue |-> "absent"],
                 "up").coll

RECURSIVE StoresOf(_)
StoresOf(n) ==
    IF n = 0 THEN {EmptyCollection}
    ELSE {written(c, n - 1, w, d) :
             c \in StoresOf(n - 1), w \in Writers, d \in Decisions}

\* The collections that up to n reviews leave behind.
ContextStores(n) == UNION {StoresOf(m) : m \in 0..n}

ContextInit == rag_context = NoContext

\* ------------------------------------- retry_with_backoff around a breaker
\* The wrapped function is `breaker.call(operation)`, as in
\* test_retry_with_circuit_breaker.
VARIABLES
    guarded     \* invocations of the operation itself during the wrapper
                \* call, how many raised a retryable exception, and the
                \* failures the breaker had counted when the call began

cvars == <<guarded>>

\* What the operation behind the breaker does: it returns, or raises a
\* retryable or a non-retryable exception.
GuardedOpOutcomes ==
    {Returned("ok"), Raised(Exc("ConnectionError", "m1")),
     Raised(Exc("ValueError", "m2"))}

breaker_call_unguarded(self, t, out, dur) ==
    [breaker |-> settle(admit(self, t), out, t + dur),
     result |-> propagate(settle(admit(self, t), out, t + dur), out),
     invoked |-> 1, seen |-> admit(self, t).state, did |-> out, end |-> t + dur]

\* breaker.call(operation) begun at time t, the operation doing `out` in
\* `dur`: the breaker afterwards, what the call returns or raises, and when.
breaker_call(self, t, out, dur) ==
    IF rejects(self, t)
    THEN [breaker |-> self, result |-> Raised(CircuitBreakerOpenError),
          invoked |-> 0, seen |-> "none", did |-> NotInvoked, end |-> t]
    ELSE [breaker |-> settle(admit(self, t), out, t + dur),
          result |-> propagate(settle(admit(self, t), out, t + dur), out),
          invoked |-> 1, seen |-> admit(self, t).state, did |-> out,
          end |-> t + dur]

\* One iteration of the wrapper's loop around breaker.call, with the
\* time.sleep that follows a retryable failure.
guarded_attempt(out, dur) ==
    LET r == breaker_call(breaker, now, out, dur)
        next == attempt_step(retry, wrapper, r.result)
        end == r.end + (IF next.sleep >= 0 THEN next.sleep ELSE 0)
        retryable == r.result.t = "raise"
                        /\ Catches(retry.retryable_exceptions, r.result.e)
    IN  /\ wrapper.pc = "loop"
        /\ wrapper.attempt < retry.max_retries + 1
        /\ end <= MaxTime
        /\ breaker.failures < MaxFailures
        /\ breaker' = r.breaker
        /\ now' = end
        /\ called' = [op |-> "call", pre |-> breaker, at |-> now,
                      invoked |-> r.invoked, seen |-> r.seen, did |-> r.did,
                      result |-> r.result]
        /\ streak' = Cap(Streak(r.did))
        /\ wrapper' = next.w
        /\ outcome' = next.outcome
        /\ slept' = IF next.sleep >= 0
                    THEN [n |-> slept.n + 1, last |-> next.sleep, prev |-> slept.last]
                    ELSE slept
        /\ call_count' = [total |-> call_count.total + 1,
                          retryable |-> call_count.retryable
                                           + IF retryable THEN 1 ELSE 0]
        /\ did' = r.result
        /\ guarded' = [guarded EXCEPT
               !.invoked = @ + r.invoked,
               !.retryable = @ + IF r.invoked = 1 /\ out.t = "raise"
                                    /\ Catches(retry.retryable_exceptions, out.e)
                                 THEN 1 ELSE 0]
        /\ UNCHANGED retry

\* The loop of the wrapper ran out (line 80).
guarded_loop_end == retry_loop_end /\ UNCHANGED <<bvars, guarded>>

NotGuarded == [invoked |-> 0, retryable |-> 0, start |-> 0]

\* The decorator as the test applies it: the default retryable set.
GuardedConfigs ==
    {Decorator(R, B, M, RETRYABLE_EXCEPTIONS) :
        R \in -1..MaxRetries, B \in 0..MaxBaseDelay, M \in 1..MaxDelayCap}

\* A closed breaker, as constructed or with failures counted below its
\* threshold, and a wrapper call about to begin.
GuardedInit ==
    /\ \E f \in 1..MaxThreshold, t \in 0..MaxTimeout, k \in 0..(MaxThreshold - 1) :
          /\ k < f
          /\ breaker = [CircuitBreaker(f, t) EXCEPT !.failures = k]
          /\ guarded = [invoked |-> 0, retryable |-> 0, start |-> k]
    /\ now = 0
    /\ called = NoCall
    /\ streak = [any |-> 0, exc |-> 0]
    /\ \E cfg \in GuardedConfigs : RetryStart(cfg)

\* ------------------------------------------------------- specifications
vars == <<bvars, rvars, tvars, fvars, pvars, xvars, cvars>>

\* The breaker alone, one caller at a time: no wrapper call is running.
Init ==
    /\ BreakerInit
    /\ RetryStart(Decorator(DefaultMaxRetries, DefaultBaseDelay, DefaultMaxDelay,
                            RETRYABLE_EXCEPTIONS))
    /\ ThreadInit
    /\ ReviewInit
    /\ PipelineInit
    /\ ContextInit
    /\ guarded = NotGuarded

Next ==
    \/ \E out \in BreakerOpOutcomes, dur \in 0..MaxDuration :
          call(out, dur) /\ UNCHANGED <<rvars, tvars, fvars, pvars, xvars, cvars>>
    \/ is_available /\ UNCHANGED <<rvars, tvars, fvars, pvars, xvars, cvars>>
    \/ Tick /\ UNCHANGED <<rvars, tvars, fvars, pvars, xvars, cvars>>

Spec == Init /\ [][Next]_vars

\* One wrapper call alone: the breaker is not used.
RetrySpecInit ==
    /\ RetryInit
    /\ breaker = CircuitBreaker(1, 0)
    /\ now = 0
    /\ called = NoCall
    /\ streak = [any |-> 0, exc |-> 0]
    /\ ThreadInit
    /\ ReviewInit
    /\ PipelineInit
    /\ ContextInit
    /\ guarded = NotGuarded

RetrySpecNext ==
    \/ \E out \in RetryOpOutcomes : retry_attempt(out) /\ UNCHANGED <<bvars, tvars, fvars, pvars, xvars, cvars>>
    \/ retry_loop_end /\ UNCHANGED <<bvars, tvars, fvars, pvars, xvars, cvars>>

RetrySpec == RetrySpecInit /\ [][RetrySpecNext]_vars

\* One breaker shared by the threads of the process.
ThreadSpecInit ==
    /\ BreakerInit
    /\ ThreadInit
    /\ RetryStart(Decorator(DefaultMaxRetries, DefaultBaseDelay, DefaultMaxDelay,
                            RETRYABLE_EXCEPTIONS))
    /\ ReviewInit
    /\ PipelineInit
    /\ ContextInit
    /\ guarded = NotGuarded

ThreadSpecNext ==
    \/ \E t \in Threads : thread_call(t) /\ UNCHANGED <<rvars, fvars, pvars, xvars, cvars>>
    \/ \E t \in Threads : thread_invoke(t) /\ UNCHANGED <<rvars, fvars, pvars, xvars, cvars>>
    \/ \E t \in Threads, out \in ThreadOpOutcomes :
          thread_return(t, out) /\ UNCHANGED <<rvars, fvars, pvars, xvars, cvars>>
    \/ \E t \in Threads, out \in ThreadOpOutcomes :
          thread_raise(t, out) /\ UNCHANGED <<rvars, fvars, pvars, xvars, cvars>>
    \/ \E t \in Threads : thread_store(t) /\ UNCHANGED <<rvars, fvars, pvars, xvars, cvars>>
    \/ \E t \in Threads : thread_trip(t) /\ UNCHANGED <<rvars, fvars, pvars, xvars, cvars>>
    \/ Tick /\ UNCHANGED <<rvars, tvars, fvars, pvars, xvars, cvars>>

ThreadSpec == ThreadSpecInit /\ [][ThreadSpecNext]_vars

\* A reviewer at the dashboard, and direct writes of feedback.
ReviewSpecInit ==
    /\ ReviewInit
    /\ breaker = CircuitBreaker(1, 0)
    /\ now = 0
    /\ called = NoCall
    /\ streak = [any |-> 0, exc |-> 0]
    /\ RetryStart(Decorator(DefaultMaxRetries, DefaultBaseDelay, DefaultMaxDelay,
                            RETRYABLE_EXCEPTIONS))
    /\ ThreadInit
    /\ PipelineInit
    /\ ContextInit
    /\ guarded = NotGuarded

ReviewSpecNext ==
    \/ \E k \in IssueKeys, r \in Reasons, a \in StoreStates :
          approve(k, r, a) /\ UNCHANGED <<bvars, rvars, tvars, pvars, xvars, cvars>>
    \/ \E k \in IssueKeys, r \in Reasons, a \in StoreStates :
          deny(k, r, a) /\ UNCHANGED <<bvars, rvars, tvars, pvars, xvars, cvars>>
    \/ \E k \in IssueKeys, d \in Decisions, r \in Reasons, a \in StoreStates :
          rag_save(k, d, r, a) /\ UNCHANGED <<bvars, rvars, tvars, pvars, xvars, cvars>>
    \/ Tock /\ UNCHANGED <<bvars, rvars, tvars, pvars, xvars, cvars>>

ReviewSpec == ReviewSpecInit /\ [][ReviewSpecNext]_vars

\* One pipeline run over a feedback store that earlier reviews have filled.
PipelineSpecInit ==
    /\ PipelineInit
    /\ review_feedback \in Stores
    /\ session = NoSession
    /\ clock = MaxClock
    /\ reviewed = NoReview
    /\ breaker = CircuitBreaker(1, 0)
    /\ now = 0
    /\ called = NoCall
    /\ streak = [any |-> 0, exc |-> 0]
    /\ RetryStart(Decorator(DefaultMaxRetries, DefaultBaseDelay, DefaultMaxDelay,
                            RETRYABLE_EXCEPTIONS))
    /\ ThreadInit
    /\ ContextInit
    /\ guarded = NotGuarded

PipelineSpecNext ==
    \/ \E out \in FetchOutcomes : fetch(out) /\ UNCHANGED <<bvars, rvars, tvars, fvars, xvars, cvars>>
    \/ \E out \in SearchOutcomes : search(out) /\ UNCHANGED <<bvars, rvars, tvars, fvars, xvars, cvars>>
    \/ \E avail \in FeedbackReads : compare_text_load(avail) /\ UNCHANGED <<bvars, rvars, tvars, fvars, xvars, cvars>>
    \/ \E resp \in LLMResponses : compare_text_doc(resp) /\ UNCHANGED <<bvars, rvars, tvars, fvars, xvars, cvars>>
    \/ compare_images /\ UNCHANGED <<bvars, rvars, tvars, fvars, xvars, cvars>>
    \/ suggest /\ UNCHANGED <<bvars, rvars, tvars, fvars, xvars, cvars>>

PipelineSpec == PipelineSpecInit /\ [][PipelineSpecNext]_vars

\* The run is one synchronous thread: a node that can run does run.
PipelineRun == PipelineSpec /\ WF_vars(PipelineSpecNext)


\* Calls of get_feedback_context over a store that reviews have filled.
ContextSpecInit ==
    /\ review_feedback \in ContextStores(MaxEntries)
    /\ session = NoSession
    /\ clock = 0
    /\ reviewed = NoReview
    /\ ContextInit
    /\ breaker = CircuitBreaker(1, 0)
    /\ now = 0
    /\ called = NoCall
    /\ streak = [any |-> 0, exc |-> 0]
    /\ RetryStart(Decorator(DefaultMaxRetries, DefaultBaseDelay, DefaultMaxDelay,
                            RETRYABLE_EXCEPTIONS))
    /\ ThreadInit
    /\ PipelineInit
    /\ guarded = NotGuarded

ContextSpecNext ==
    \E c \in Categories, n \in Limits, a \in FeedbackReads :
        feedback_context(c, n, a) /\ UNCHANGED <<session, clock, reviewed>>
           /\ UNCHANGED <<bvars, rvars, tvars, pvars, cvars>>

ContextSpec == ContextSpecInit /\ [][ContextSpecNext]_vars

\* One wrapper call whose function goes through the breaker.
GuardedSpecInit ==
    /\ GuardedInit
    /\ ThreadInit
    /\ ReviewInit
    /\ PipelineInit
    /\ ContextInit

GuardedSpecNext ==
    \/ \E out \in GuardedOpOutcomes, dur \in 0..MaxDuration :
          guarded_attempt(out, dur) /\ UNCHANGED <<tvars, fvars, pvars, xvars>>
    \/ guarded_loop_end /\ UNCHANGED <<tvars, fvars, pvars, xvars>>

GuardedSpec == GuardedSpecInit /\ [][GuardedSpecNext]_vars

\* ------------------------------------------------ claims: circuit breaker
F == breaker.failure_threshold

\* The cooldown had passed when the last operation began.
CooldownPassed ==
    called.at - called.pre.last_failure_time >= called.pre.recovery_timeout

\* The last operation was a call that found the breaker open.
CalledOpen == called.op = "call" /\ called.pre.state = "open"

\* A call on an open breaker whose cooldown has not passed raises
\* CircuitBreakerOpenError and never invokes the operation.
OpenRejects ==
    (CalledOpen /\ ~CooldownPassed)
        => /\ called.invoked = 0
           /\ called.result = Raised(CircuitBreakerOpenError)

\* C1 as stated: after F consecutive calls whose operation raised an exception
\* of any kind the breaker is open, and a call on an open breaker before the
\* cooldown has passed is rejected without invoking the operation.
C1_TripAnyKind ==
    /\ streak.any >= F => breaker.state = "open"
    /\ OpenRejects

\* C1 amended: after F consecutive calls whose operation raised an exception
\* derived from Exception the breaker is open, and a call on an open breaker
\* before the cooldown has passed raises CircuitBreakerOpenError without
\* invoking the operation.
C1_Trip ==
    /\ streak.exc >= F => breaker.state = "open"
    /\ OpenRejects

\* Three failures tripped a breaker of threshold 3, and the fourth call,
\* inside the cooldown, was rejected.
C1_Witness ==
    /\ CalledOpen
    /\ called.pre.failure_threshold = 3
    /\ called.pre.failures = 3
    /\ ~CooldownPassed
    /\ called.invoked = 0
    /\ called.result.e.kind = "CircuitBreakerOpenError"

\* C3: a call on an open breaker whose cooldown has passed invokes the
\* operation, which sees the breaker half_open; when the operation returns,
\* the call returns its result and leaves the breaker closed with 0 failures.
C3_HalfOpenRecovery ==
    (CalledOpen /\ CooldownPassed)
        => /\ called.invoked = 1
           /\ called.seen = "half_open"
           /\ called.did.t = "return"
                => /\ called.result = called.did
                   /\ breaker.state = "closed"
                   /\ breaker.failures = 0

C3_Witness ==
    /\ CalledOpen
    /\ called.pre.recovery_timeout > 0
    /\ called.at - called.pre.last_failure_time = called.pre.recovery_timeout
    /\ called.seen = "half_open"
    /\ called.result = Returned("recovered")
    /\ breaker.state = "closed"
    /\ breaker.failures = 0

\* C8: after any call whose operation returned, the failure counter is 0 and
\* the state is closed, whatever they were before.
C8_SuccessResets ==
    (called.op = "call" /\ called.did.t = "return")
        => breaker.failures = 0 /\ breaker.state = "closed"

\* A success on a closed breaker one failure short of its threshold of 3.
C8_Witness ==
    /\ called.op = "call"
    /\ called.did.t = "return"
    /\ called.pre.state = "closed"
    /\ called.pre.failure_threshold = 3
    /\ called.pre.failures = 2
    /\ breaker.failures = 0

\* C9: is_available changes no attribute of the breaker.
C9_IsAvailablePure == called.op = "is_available" => breaker = called.pre

\* is_available answered True on an open breaker whose cooldown had passed,
\* and the breaker is still open.
C9_Witness ==
    /\ called.op = "is_available"
    /\ called.pre.state = "open"
    /\ CooldownPassed
    /\ called.result = Returned("True")
    /\ breaker.state = "open"

\* C10: a call invokes the operation at most once, and when the operation
\* raises, the caller gets that very exception.
C10_RaisesOriginal ==
    called.op = "call"
        => /\ called.invoked <= 1
           /\ called.did.t = "raise" => called.result = called.did

\* The failure that tripped the breaker reached the caller unchanged.
C10_Witness ==
    /\ called.op = "call"
    /\ called.did.t = "raise"
    /\ called.pre.state = "closed"
    /\ breaker.state = "open"
    /\ called.result.e = called.did.e

\* The last operation was a call let through as a probe: it found the
\* breaker open with the cooldown passed, and its operation raised.
ProbeRaised == CalledOpen /\ CooldownPassed /\ called.did.t = "raise"

\* The breaker at the end of a failed probe, as the claim describes it: one more
\* failure, timed at the end of the call, open, and every call before a
\* full recovery_timeout has passed since then finds it shut.
Reopened ==
    /\ breaker.failures = called.pre.failures + 1
    /\ breaker.last_failure_time = now
    /\ breaker.state = "open"
    /\ \A t \in now..(now + breaker.recovery_timeout - 1) :
           breaker.state = "open"
              /\ t - breaker.last_failure_time < breaker.recovery_timeout

\* C25 as stated: when the call admitted after the recovery timeout raises,
\* whatever it raises, the counter is one higher, last_failure_time is the
\* time of that failure and the breaker is open for a full recovery_timeout.
C25_ProbeAnyRaise == [][(called' # called /\ ProbeRaised') => Reopened']_vars

\* C25 amended: the same when the probe raises an exception derived from
\* Exception.
C25_ProbeFailureReopens ==
    [][(called' # called /\ ProbeRaised' /\ Catches({"Exception"}, called'.did.e))
          => Reopened']_vars

\* A probe that took one unit of time failed, and the breaker is open again
\* with the failure timed at the end of the probe.
C25_Witness ==
    /\ ProbeRaised
    /\ called.did.e.kind = "ConnectionError"
    /\ called.seen = "half_open"
    /\ called.pre.recovery_timeout = 2
    /\ now = called.at + 1
    /\ breaker.state = "open"
    /\ breaker.last_failure_time = now
    /\ breaker.failures = called.pre.failures + 1

\* C28: the breaker is open or half_open only with at least F failures
\* counted, and closed only with fewer than F.
C28_StateMatchesCounter ==
    /\ breaker.state \in {"open", "half_open"} => breaker.failures >= F
    /\ breaker.state = "closed" => breaker.failures < F

\* A breaker of threshold 2 that tripped and then recovered: closed again
\* with no failure counted.
C28_Witness ==
    /\ F = 2
    /\ called.op = "call"
    /\ called.pre.state = "open" /\ called.pre.failures >= 2
    /\ called.did.t = "return"
    /\ breaker.state = "closed" /\ breaker.failures = 0

\* C29: a rejected call changes no attribute of the breaker; only a call
\* whose operation raised moves last_failure_time; and a call on an open
\* breaker whose recovery_timeout has passed since last_failure_time is let
\* through, whatever was rejected before.
C29_RejectionsKeepCooldown ==
    [][/\ (called'.op = "call" /\ called'.invoked = 0) => breaker' = breaker
       /\ breaker'.last_failure_time # breaker.last_failure_time
             => called'.invoked = 1 /\ called'.did.t = "raise"
       /\ (called' # called /\ called'.op = "call" /\ breaker.state = "open"
              /\ now - breaker.last_failure_time >= breaker.recovery_timeout)
             => called'.invoked = 1]_vars

\* A call rejected one unit of time before the end of a cooldown of 2: the
\* breaker is as the call found it.
C29_Witness ==
    /\ CalledOpen
    /\ called.invoked = 0
    /\ called.pre.recovery_timeout = 2
    /\ called.at = called.pre.last_failure_time + 1
    /\ breaker = called.pre

\* ------------------------------------------------------- claims: retry
R == retry.max_retries

Done == wrapper.pc = "done"

\* The last invocation raised an exception the retryable set matches.
LastRetryable ==
    did.t = "raise" /\ Catches(retry.retryable_exceptions, did.e)

\* The last invocation raised an exception the retryable set does not match.
LastNonRetryable ==
    did.t = "raise" /\ ~Catches(retry.retryable_exceptions, did.e)

\* Every invocation so far raised a retryable exception.
AllRetryable == call_count.retryable = call_count.total

\* C2: for R >= 0 the function is never invoked more than R+1 times, and a
\* wrapper call all of whose attempts raised a retryable exception ends
\* after exactly R+1 invocations.
C2_RetryBounds ==
    R >= 0 => /\ call_count.total <= R + 1
              /\ (Done /\ AllRetryable) => call_count.total = R + 1

\* C4 as stated: when the function raises a non-retryable exception it has
\* been invoked exactly once in this wrapper call, no sleep has happened,
\* and the exception is what the caller gets.
C4_NonRetryableOnce ==
    LastNonRetryable
        => /\ Done
           /\ call_count.total = 1
           /\ slept.n = 0
           /\ outcome = did

\* C4 amended: when the function raises a non-retryable exception, that
\* invocation is the last of the wrapper call (the only one when it is the
\* first attempt), no sleep follows it (the sleeps are those after the
\* retryable failures before it), and the exception is what the caller gets.
C4_NonRetryableStops ==
    LastNonRetryable
        => /\ Done
           /\ outcome = did
           /\ call_count.total = call_count.retryable + 1
           /\ slept.n = call_count.retryable
           /\ call_count.retryable = 0 => call_count.total = 1 /\ slept.n = 0

\* A ValueError on the first attempt, three retries allowed, retrying only
\* ConnectionError: one invocation, no sleep, ValueError out.
C4_Witness ==
    /\ R = 3
    /\ retry.retryable_exceptions = {"ConnectionError"}
    /\ Done
    /\ did.t = "raise"
    /\ did.e.kind = "ValueError"
    /\ call_count.total = 1
    /\ slept.n = 0
    /\ outcome = did

\* C5: when the (R+1)-th attempt raises a retryable exception, the caller
\* gets that exception, class and message.
C5_FinalFailurePropagates ==
    (R >= 0 /\ Done /\ call_count.total = R + 1 /\ LastRetryable)
        => outcome = did

\* Two retries, three failed attempts, the third one's TimeoutError out.
C5_Witness ==
    /\ R = 2
    /\ Done
    /\ call_count.total = 3
    /\ AllRetryable
    /\ did = Raised(Exc("TimeoutError", "m2"))
    /\ outcome = did

\* C6: when an invocation returns, the wrapper is done and returns that
\* value; the invocations are the retryable failures before it and itself,
\* at most R+1.
C6_StopsAtFirstSuccess ==
    did.t = "return"
        => /\ Done
           /\ outcome = did
           /\ call_count.total = call_count.retryable + 1
           /\ call_count.total <= R + 1

\* Two failures, then a success on the third attempt.
C6_Witness ==
    /\ R = 3
    /\ did = Returned("recovered")
    /\ call_count.total = 3
    /\ call_count.retryable = 2
    /\ slept.n = 2
    /\ outcome = did
    /\ Done

\* The delay the claim gives for the retry after attempt i.
ClaimedDelay(i) == Min(retry.base_delay * Pow2(Min(i, PowCap)), retry.max_delay)

\* C7: a retryable failure of attempt i < R is followed by a sleep, of
\* min(base_delay * 2^i, max_delay); consecutive delays do not decrease,
\* double below the cap and never exceed max_delay.
C7_BackoffDelay ==
    /\ (LastRetryable /\ call_count.total <= R)
            => ~Done /\ slept.n = call_count.total
    /\ slept.n >= 1 => /\ slept.last = ClaimedDelay(slept.n - 1)
                       /\ slept.last <= retry.max_delay
    /\ slept.n >= 2 => /\ slept.prev <= slept.last
                       /\ slept.last < retry.max_delay => slept.last = 2 * slept.prev

\* ------------------------------------- claims: retry around a breaker
RECURSIVE TotalBackoff(_)
\* The sleeps of a wrapper call that backs off after attempts 0..n-1.
TotalBackoff(n) ==
    IF n <= 0 THEN 0
    ELSE TotalBackoff(n - 1)
            + Min(retry.base_delay * Pow2(Min(n - 1, PowCap)), retry.max_delay)

\* The case of the claim: the default retryable set, more attempts than the
\* threshold, all backoff together shorter than the cooldown, and an
\* operation that has raised a retryable exception whenever invoked.
GuardedCase ==
    /\ retry.retryable_exceptions = {"ConnectionError", "TimeoutError", "OSError"}
    /\ R + 1 > F
    /\ TotalBackoff(R) < breaker.recovery_timeout
    /\ guarded.retryable = guarded.invoked

\* C30 as stated: in that case the wrapper call, begun on a closed breaker,
\* invokes the operation exactly F times and ends with
\* CircuitBreakerOpenError, raised by the call after the F-th.
C30_BreakerStopsRetry ==
    GuardedCase
       => /\ guarded.invoked <= F
          /\ Done => /\ guarded.invoked = F
                      /\ call_count.total = F + 1
                      /\ outcome = Raised(CircuitBreakerOpenError)

\* C30 amended: the same count for a breaker with no failure counted when
\* the wrapper call begins; with k failures already counted the operation
\* is invoked F - k times.
C30_BreakerStopsRetryFromCount ==
    GuardedCase
       => /\ guarded.invoked <= F - guarded.start
          /\ Done => /\ guarded.invoked = F - guarded.start
                      /\ call_count.total = F - guarded.start + 1
                      /\ outcome = Raised(CircuitBreakerOpenError)
                      /\ breaker.state = "open"

\* A breaker as constructed, threshold 1 and cooldown 2, one retry after a
\* backoff of one unit: one invocation, then the breaker's error.
C30_Witness ==
    /\ GuardedCase /\ Done
    /\ guarded.start = 0 /\ F = 1 /\ R = 1
    /\ breaker.recovery_timeout = 2
    /\ slept.n = 1 /\ slept.last = 1
    /\ guarded.invoked = 1
    /\ call_count.total = 2
    /\ outcome = Raised(CircuitBreakerOpenError)

\* ------------------------------------- claims: breaker, concurrent callers
\* A thread whose operation has been invoked and whose outcome _on_success
\* or _on_failure has not finished recording.
InFlight(t) == threads[t].pc \in {"running", "loaded", "stored"}

Probes == {t \in Threads : InFlight(t) /\ threads[t].seen = "half_open"}

\* C11: in half_open exactly one call goes through as a probe: among the
\* callers of an open breaker whose cooldown has passed, at most one has
\* invoked the operation while the probe's outcome is not yet recorded.
C11_SingleProbe == Cardinality(Probes) <= 1

Quiet == \A t \in Threads : threads[t].pc = "idle"

\* C12: when F failing calls of interleaved threads have all completed and
\* no call has succeeded, no increment is lost: the counter is F and the
\* breaker is open.
C12_NoLostFailure ==
    (Quiet /\ tally.returned = 0 /\ tally.raised = F)
        => (breaker.failures = F /\ breaker.state = "open")

\* ------------------------------------------------ claims: review feedback
\* C17: feedback entries are append-only: whatever the review action, every
\* entry the store holds is still there afterwards with the decision and the
\* reason it was written with.
C17_AppendOnly ==
    [][\A d \in DOMAIN review_feedback :
          \E e \in DOMAIN review_feedback' :
              /\ e.id = d.id
              /\ e.data.decision = d.data.decision
              /\ e.data.reason = d.data.reason]_vars

Entries(coll, doc_id) == {d \in DOMAIN coll : d.id = doc_id}

\* C18: persisting is idempotent per key: a write of the content the store
\* already holds for that key leaves the store as the single write left it,
\* with exactly one entry for the key.
C18_IdempotentWrite ==
    [][(reviewed'.op # "none" /\ reviewed'.rewrote)
          => /\ review_feedback' = review_feedback
             /\ Cardinality(Entries(review_feedback', reviewed'.id)) = 1
             /\ \A d \in Entries(review_feedback', reviewed'.id) :
                    review_feedback'[d] = 1 /\ d.data = reviewed'.data]_vars

C18_Witness ==
    /\ reviewed.op # "none" /\ reviewed.rewrote /\ reviewed.avail = "up"
    /\ Entries(review_feedback, reviewed.id)
           = {[id |-> reviewed.id, data |-> reviewed.data]}

\* C19: a review action does not fail because the store is down: when the
\* client is unavailable or the write raises, the decision and the reason of
\* that key are in the session state, the store is as it was, and no
\* exception leaves the action.
C19_ReviewSurvivesOutage ==
    [][(reviewed'.op = "review" /\ reviewed'.avail # "up")
          => LET k == reviewed'.id.key
             IN  /\ session'.review_status[k] = reviewed'.data.decision
                 /\ session'.review_reasons[k] = reviewed'.data.reason
                 /\ review_feedback' = review_feedback
                 /\ reviewed'.exc = NoExc]_vars

C19_Witness ==
    /\ reviewed.op = "review" /\ reviewed.avail = "set_raises"
    /\ reviewed.data.decision = "denied" /\ reviewed.data.reason = "r1"
    /\ session.review_status[reviewed.id.key] = "denied"
    /\ session.review_reasons[reviewed.id.key] = "r1"
    /\ Entries(review_feedback, reviewed.id) = {}

\* ------------------------------------------- claims: feedback context
Fetched == rag_context.fetched

Bullets == {l \in DOMAIN rag_context.lines : rag_context.lines[l].form = "bullet"}

HasHeader(group) ==
    \E l \in DOMAIN rag_context.lines :
        rag_context.lines[l].form = "header" /\ rag_context.lines[l].group = group

Decided(decision) == {j \in DOMAIN Fetched : Fetched[j].decision = decision}

\* C21: every entry fetched is one bullet line of the group of its decision;
\* a group with entries has its header; there are as many bullet lines as
\* entries fetched; and nothing fetched gives the empty string.
C21_ContextPartition ==
    rag_context.called
       => /\ \A j \in DOMAIN Fetched :
                /\ Cardinality({l \in Bullets :
                                   rag_context.lines[l].of = Fetched[j]}) = 1
                /\ \A l \in Bullets :
                      rag_context.lines[l].of = Fetched[j]
                         => rag_context.lines[l].group = Fetched[j].decision
          /\ \A g \in Decisions : Decided(g) # {} => HasHeader(g)
          /\ Cardinality(Bullets)
                = Cardinality(Decided("approved")) + Cardinality(Decided("denied"))
          /\ Fetched = <<>> => rag_context.lines = <<>>

RECURSIVE SumChars(_)
SumChars(lines) ==
    IF lines = <<>> THEN 0 ELSE Head(lines).length + SumChars(Tail(lines))

\* len() of the string: the lines and the "\n" between them.
ContextChars ==
    SumChars(rag_context.lines)
       + (IF rag_context.lines = <<>> THEN 0 ELSE Len(rag_context.lines) - 1)

\* What n entries can come to when every free-text field of a line is held
\* to the budget: the two headers, and per entry the fixed words of a line,
\* three fields and the newline before it.
ContextBound(n) == 15 + 32 + 1 + n * (22 + 3 * ContextDetailBudget + 1)

\* C22: the length of the context is bounded for a limit N whatever the
\* lengths of detail, reason and category: each of them takes at most the
\* budget in a line, and the whole is within the bound for the limit.
C22_ContextBounded ==
    rag_context.called
       => /\ \A l \in Bullets :
                LET line == rag_context.lines[l]
                IN  /\ line.detail <= ContextDetailBudget
                    /\ line.length <= 22 + 3 * ContextDetailBudget
          /\ ContextChars <= ContextBound(rag_context.limit)

\* ------------------------------------------------------ claims: pipeline
\* C13: the comparison goes through the retry policy: fallback findings
\* replace a document's results after a retryable failure only when the
\* model has been invoked max_retries + 1 times for that document.
C13_FallbackAfterRetries ==
    \A i \in DOMAIN llm_calls :
        (llm_calls[i].resp.shape = "raise"
            /\ Catches(RETRYABLE_EXCEPTIONS, llm_calls[i].resp.e))
        => llm_calls[i].invoked = DefaultMaxRetries + 1

Stages == <<"fetch_source", "search_related", "compare_text", "compare_images",
            "suggest">>

AllFailed == faults.fetch /\ faults.search /\ faults.feedback /\ faults.compare

\* C14: the five stages run once each in the fixed order, whatever the
\* collaborators return or raise: the nodes run so far are always a prefix
\* of the order, and all five have run when the graph ends.
C14_FixedOrder ==
    /\ Len(trace) <= Len(Stages)
    /\ trace = SubSeq(Stages, 1, Len(trace))
    /\ run.node = "END" => trace = Stages

C14_Witness == run.node = "END" /\ trace = Stages /\ AllFailed

\* C15: whatever collaborators fail, no exception leaves a node, a failed
\* fetch leaves the placeholder text as source text, and the run ends after
\* generate_suggestions.
C15_RunCompletes ==
    /\ [](/\ run.exc = NoExc
          /\ (faults.fetch => agent_state.source_text = "demo_text"))
    /\ <>(/\ run.node = "END"
          /\ agent_state.current_step = "done"
          /\ trace[Len(trace)] = "suggest")

C15_Witness ==
    /\ AllFailed /\ run.node = "END" /\ run.exc = NoExc
    /\ agent_state.source_text = "demo_text"
    /\ agent_state.current_step = "done"

Compared == agent_state.current_step \in {"compare_text", "compare_images", "done"}

RaisedFor(i) == llm_calls[i].resp.shape = "raise"

\* What the claim expects for the i-th document: two fixed findings under
\* its title and id when its comparison raised, its own results otherwise.
RECURSIVE ExpectedFrom(_)
ExpectedFrom(i) ==
    IF i > Len(llm_calls) THEN <<>>
    ELSE LET doc == llm_calls[i].doc
             own == IF RaisedFor(i)
                    THEN <<[kind |-> "fallback", old_doc |-> doc.title,
                            doc_id |-> doc.doc_id, severity |-> "critical",
                            text |-> "gear_icon"],
                           [kind |-> "fallback", old_doc |-> doc.title,
                            doc_id |-> doc.doc_id, severity |-> "warning",
                            text |-> "dashboard_renamed"]>>
                    ELSE doc_findings(doc, compare_text(llm_calls[i].resp))
         IN  own \o ExpectedFrom(i + 1)

\* C16: every related document is compared once, in order; a comparison
\* that raises adds exactly two fallback findings for its document and the
\* other documents keep their results, so the final list is not empty.
C16_FailureIsolation ==
    /\ Len(llm_calls) <= Len(agent_state.related_docs)
    /\ \A i \in DOMAIN llm_calls : llm_calls[i].doc = agent_state.related_docs[i]
    /\ Compared =>
          /\ Len(llm_calls) = Len(agent_state.related_docs)
          /\ agent_state.contradictions = ExpectedFrom(1)
          /\ (\E i \in DOMAIN llm_calls : RaisedFor(i))
                => agent_state.contradictions # <<>>

C16_Witness ==
    /\ Compared
    /\ Len(llm_calls) = 2
    /\ RaisedFor(1)
    /\ llm_calls[2].resp.shape = "json_list" /\ Len(llm_calls[2].resp.items) = 2
    /\ Len(agent_state.contradictions) = 4
    /\ agent_state.contradictions[3].kind = "model"

Severities == {"critical", "warning", "info"}

\* C23: every finding in the contradictions and visual-decays lists has one
\* of the three severities.
C23_SeverityEnumerated ==
    /\ \A i \in DOMAIN agent_state.contradictions :
          agent_state.contradictions[i].severity \in Severities
    /\ \A i \in DOMAIN agent_state.visual_decays :
          agent_state.visual_decays[i].severity \in Severities

\* The dict the contradictions list holds for a finding.
Stored(f) == [old_doc |-> f.old_doc, doc_id |-> f.doc_id,
              severity |-> f.severity, text |-> f.text]

\* The dicts a comparison that succeeds can add to the list for `doc`.
Authoritative(doc) ==
    UNION {LET found == doc_findings(doc, compare_text(resp))
           IN  {Stored(found[k]) : k \in {j \in DOMAIN found :
                                               found[j].kind # "fallback"}} :
              resp \in {r \in LLMResponses : r.shape # "raise"}}

\* C24: the findings substituted for a document whose comparison failed are
\* tagged: none of them is a dict a successful comparison of that document
\* could have produced.
C24_FallbackTagged ==
    \A i \in DOMAIN agent_state.contradictions :
        LET f == agent_state.contradictions[i]
        IN  f.kind = "fallback"
              => \A j \in DOMAIN agent_state.related_docs :
                    Stored(f) \notin Authoritative(agent_state.related_docs[j])

Searched == Len(trace) >= 2

\* C26: once search_related has run the related documents are not empty:
\* the two fixed documents when the search raised or returned nothing, the
\* search results as returned otherwise; no exception leaves the node and
\* compare_text is next.
C26_RelatedNeverEmpty ==
    Searched =>
       /\ agent_state.related_docs # <<>>
       /\ (faults.search \/ faults.found = 0)
             => agent_state.related_docs
                   = <<Doc("fallback", 1), Doc("fallback", 2)>>
       /\ (~faults.search /\ faults.found > 0)
             => agent_state.related_docs
                   = [i \in 1..faults.found |-> Doc("search", i)]
       /\ run.exc = NoExc
       /\ Len(trace) = 2 => run.node = "compare_text"

\* The search returned an empty list and the run ended on the fixed two.
C26_Witness ==
    /\ run.node = "END"
    /\ ~faults.search /\ faults.found = 0
    /\ Len(agent_state.related_docs) = 2
    /\ agent_state.related_docs[1].doc_id.origin = "fallback"

\* C27: each of the five fields is written by its own stage only: a step
\* that changes a field is the step of that field's stage.
C27_WriteOnce ==
    [][/\ agent_state'.source_text # agent_state.source_text
             => run.node = "fetch_source"
       /\ agent_state'.related_docs # agent_state.related_docs
             => run.node = "search_related"
       /\ agent_state'.contradictions # agent_state.contradictions
             => run.node = "compare_text"
       /\ agent_state'.visual_decays # agent_state.visual_decays
             => run.node = "compare_images"
       /\ agent_state'.suggestions # agent_state.suggestions
             => run.node = "suggest"]_vars

\* A finished run in which every stage wrote its field.
C27_Witness ==
    /\ run.node = "END"
    /\ agent_state.source_text = "doc"
    /\ agent_state.related_docs # <<>>
    /\ Len(agent_state.contradictions) = 3
    /\ agent_state.visual_decays # <<>>
    /\ Len(agent_state.suggestions) = 4

Rendered(fb, context) ==
    \E l \in DOMAIN context :
        /\ context[l].category = fb.issue_category
        /\ context[l].reason = fb.reason
        /\ context[l].decision = IF fb.decision = "approved" THEN "shounin"
                                 ELSE "kyakka"

\* C20: the feedback is fetched once per run, before the first comparison;
\* every entry of the store that is among the most recent ones fetched is
\* rendered in the context, and every comparison call gets that context.
C20_LearningLoop ==
    /\ Len(loads) <= 1
    /\ llm_calls # <<>> => Len(loads) = 1
    /\ \A i \in DOMAIN llm_calls :
          /\ llm_calls[i].feedback_context = llm_calls[1].feedback_context
          /\ \A j \in DOMAIN loads[1].entries :
                Rendered(loads[1].entries[j], llm_calls[i].feedback_context)
    /\ (loads # <<>> /\ loads[1].avail = "up"
           /\ Cardinality(DOMAIN review_feedback) <= RecentLimit)
          => \A d \in DOMAIN review_feedback :
                \E j \in DOMAIN loads[1].entries : loads[1].entries[j] = d.data

C20_Witness ==
    /\ Len(llm_calls) = 2
    /\ Len(loads) = 1 /\ loads[1].avail = "up"
    /\ Len(loads[1].entries) = 2
    /\ loads[1].entries[1].decision = "denied"
    /\ loads[1].entries[2].decision = "approved" /\ loads[1].entries[2].reason = ""
    /\ Len(llm_calls[2].feedback_context) = 2
    /\ llm_calls[2].feedback_context[2].decision = "shounin"

====
